---- MODULE Spec2Model ----
(***************************************************************************)
(* LocustDB: the integer column factory and its offset codec               *)
(* (src/mem_store/integers.rs) and the query orchestration                 *)
(* (src/engine/query.rs).                                                  *)
(*                                                                         *)
(* 64-bit integers are kept at full width.  TLC's own integers are 32-bit, *)
(* so an integer is a little-endian sequence of five 16-bit limbs in       *)
(* two's complement (80 bits): every mathematical value the model forms    *)
(* (differences, sums of a few 64-bit values) is exact at that width, and  *)
(* an i64 result is that value wrapped to its low four limbs.              *)
(***************************************************************************)
EXTENDS Integers, Sequences, FiniteSets, TLC

VARIABLES
    overflow_checks, \* the build: TRUE panics on i64 overflow, FALSE wraps
    min, max, values, \* the arguments of IntegerColumn::new_boxed
    col,             \* the column new_boxed returned (or its panic)
    lit, rawval,     \* the literal given to encode_int, and its result
    decoded,         \* the result of unwrap_decode on the column's data
    sum_pres,        \* the result of is_summation_preserving
    cpc,             \* position of the column scenario
    tbl,             \* the columns handed to a query
    q,               \* the Query
    out,             \* what run / run_aggregate / result_column_names produced
    qpc              \* position of the query scenario

colvars == <<overflow_checks, min, max, values, col, lit, rawval, decoded, sum_pres, cpc>>
qvars == <<tbl, q, out, qpc>>
vars == <<overflow_checks, min, max, values, col, lit, rawval, decoded, sum_pres, cpc,
          tbl, q, out, qpc>>

\* ------------------------------------------------------------------ bounds
MaxValues == 2
MaxRows == 3
MaxLimit == 2
MaxSelect == 3
MaxAggregates == 2

\* ---------------------------------------------------- wide integer arithmetic
Base == 256 * 256

RECURSIVE AddFrom(_, _, _, _)
AddFrom(a, b, i, c) ==
    IF i > Len(a) THEN <<>>
    ELSE LET s == a[i] + b[i] + c
         IN  <<s % Base>> \o AddFrom(a, b, i + 1, s \div Base)

ZAdd(a, b) == AddFrom(a, b, 1, 0)
ZNot(a) == [i \in 1..Len(a) |-> Base - 1 - a[i]]
ZNeg(a) == ZAdd(ZNot(a), <<1, 0, 0, 0, 0>>)
ZSub(a, b) == ZAdd(a, ZNeg(b))
ZIsNeg(a) == a[Len(a)] >= Base \div 2
ZLess(a, b) == ZIsNeg(ZSub(a, b))
ZLeq(a, b) == ~ZLess(b, a)

\* A TLC integer (|n| < 2^31) as a wide integer.
Z(n) ==
    LET m == IF n >= 0 THEN n ELSE -n
        z == <<m % Base, (m \div Base) % Base, 0, 0, 0>>
    IN  IF n >= 0 THEN z ELSE ZNeg(z)

RECURSIVE ZSum(_)
ZSum(s) == IF s = <<>> THEN Z(0) ELSE ZAdd(Head(s), ZSum(Tail(s)))

RECURSIVE ZTimes(_, _)
ZTimes(a, n) == IF n = 0 THEN Z(0) ELSE ZAdd(a, ZTimes(a, n - 1))

\* ------------------------------------------------------------ i64 and widths
I64_MIN == <<0, 0, 0, 32768, 65535>>
I64_MAX == <<65535, 65535, 65535, 32767, 0>>
U8_MAX == 255
U16_MAX == 65535
U32_MAX == <<65535, 65535, 0, 0, 0>>

\* The two's complement wrap of a mathematical value to 64 bits.
Wrap64(a) ==
    [i \in 1..5 |-> IF i <= 4 THEN a[i]
                    ELSE IF a[4] >= Base \div 2 THEN Base - 1 ELSE 0]
FitsI64(a) == Wrap64(a) = a

\* Rust's i64 `-` and `+`: a panic when the build checks overflow, the wrapped
\* result when it does not.
SubI64(a, b, checks) ==
    LET exact == ZSub(a, b)
    IN  [ok |-> FitsI64(exact) \/ ~checks, v |-> Wrap64(exact)]
AddI64(a, b, checks) ==
    LET exact == ZAdd(a, b)
    IN  [ok |-> FitsI64(exact) \/ ~checks, v |-> Wrap64(exact)]

TMax(t) ==
    CASE t = "u8" -> Z(U8_MAX)
      [] t = "u16" -> Z(U16_MAX)
      [] t = "u32" -> U32_MAX

\* T::from(x): Some(x) exactly when x is representable in T.
FromI64(t, x) == [some |-> ZLeq(Z(0), x) /\ ZLeq(x, TMax(t)), v |-> x]

Panic(why) == [kind |-> "panic", why |-> why]
None == [kind |-> "none"]

\* ------------------------------------------------------------- IntegerColumn
\* IntegerColumn::encode::<T>: each value minus the offset, narrowed to T.
RECURSIVE encode(_, _, _, _)
encode(vals, offset, t, checks) ==
    IF vals = <<>> THEN [kind |-> "vec", data |-> <<>>]
    ELSE LET d == SubI64(Head(vals), offset, checks)
             n == FromI64(t, d.v)
             rest == encode(Tail(vals), offset, t, checks)
         IN  IF ~d.ok THEN Panic("attempt to subtract with overflow")
             ELSE IF ~n.some THEN Panic("unwrap on None")
             ELSE IF rest.kind = "panic" THEN rest
             ELSE [kind |-> "vec", data |-> <<n.v>> \o rest.data]

ColumnEncoded(vals, offset, t, range, checks) ==
    LET e == encode(vals, offset, t, checks)
    IN  IF e.kind = "panic" THEN e
        ELSE [kind |-> "encoded", t |-> t, data |-> e.data, offset |-> offset,
              range |-> range]

ColumnPlain(vals, range) == [kind |-> "plain", data |-> vals, range |-> range]

new_boxed(vals, mn, mx, checks) ==
    LET d == SubI64(mx, mn, checks)
        range == <<Z(0), d.v>>
    IN  IF ~d.ok THEN Panic("attempt to subtract with overflow")
        ELSE IF ZLeq(d.v, Z(U8_MAX)) THEN ColumnEncoded(vals, mn, "u8", range, checks)
        ELSE IF ZLeq(d.v, Z(U16_MAX)) THEN ColumnEncoded(vals, mn, "u16", range, checks)
        ELSE IF ZLeq(d.v, U32_MAX) THEN ColumnEncoded(vals, mn, "u32", range, checks)
        ELSE ColumnPlain(vals, <<mn, mx>>)

\* -------------------------------------------------------- IntegerOffsetCodec
\* unwrap_decode: each stored value widened to i64, plus the offset.
RECURSIVE unwrap_decode(_, _, _)
unwrap_decode(offset, data, checks) ==
    IF data = <<>> THEN [kind |-> "vec", data |-> <<>>]
    ELSE LET s == AddI64(Head(data), offset, checks)
             rest == unwrap_decode(offset, Tail(data), checks)
         IN  IF ~s.ok THEN Panic("attempt to add with overflow")
             ELSE IF rest.kind = "panic" THEN rest
             ELSE [kind |-> "vec", data |-> <<s.v>> \o rest.data]

\* encode_int: RawVal::Int(val - offset); nothing is checked against T.
encode_int(offset, val, checks) ==
    LET d == SubI64(val, offset, checks)
    IN  IF ~d.ok THEN Panic("attempt to subtract with overflow")
        ELSE [kind |-> "Int", v |-> d.v]

\* Mutant: the flag copied from is_order_preserving.
is_summation_preserving_always(offset) == TRUE

is_summation_preserving(offset) == offset = Z(0)

\* ------------------------------------------------- Filter, TypedVec, plans
Some(v) == [kind |-> "some", v |-> v]

FilterNone == [kind |-> "None"]
FilterBitVec(bits) == [kind |-> "BitVec", bits |-> bits]
FilterIndices(indices) == [kind |-> "Indices", indices |-> indices]

\* Row positions are zero-based, as in the code.
RECURSIVE TruePositions(_, _)
TruePositions(bits, i) ==
    IF i > Len(bits) THEN <<>>
    ELSE (IF bits[i] THEN <<i - 1>> ELSE <<>>) \o TruePositions(bits, i + 1)
Range0(n) == [k \in 1..n |-> k - 1]
Gather(data, indices) == [k \in 1..Len(indices) |-> data[indices[k] + 1]]

\* The rows of a column a plan reads under a filter: all of them, those the
\* mask includes, or those at the listed positions in the listed order.
ApplyFilter(data, filter) ==
    CASE filter.kind = "None" -> data
      [] filter.kind = "BitVec" -> Gather(data, TruePositions(filter.bits, 1))
      [] filter.kind = "Indices" -> Gather(data, filter.indices)

\* create_query_plan + prepare + execute of one expression: a column reference
\* yields the column's encoded values with its codec's offset, a comparison
\* with a literal (rewritten into the encoded domain) a boolean buffer, a
\* constant a constant.
Execute(expr, columns, filter) ==
    CASE expr.kind = "ColName" ->
           [tag |-> "Integer",
            data |-> ApplyFilter(columns[expr.name].data, filter),
            offset |-> columns[expr.name].offset]
      [] expr.kind = "Func" ->
           LET c == columns[expr.col]
           IN  [tag |-> "Boolean",
                data |-> ApplyFilter([i \in 1..Len(c.data) |->
                                         c.data[i] > expr.c - c.offset], filter)]
      [] expr.kind = "Const" -> [tag |-> "Constant", v |-> expr.v]

\* TypedVec::decode: the codec's offset added back.
Decode(tv) == [i \in 1..Len(tv.data) |-> tv.data[i] + tv.offset]
\* TypedVec::order_preserving: the encoded values are the sort keys.
OrderPreserving(tv) == [i \in 1..Len(tv.data) |-> <<tv.data[i]>>]
\* TypedVec::index_decode: gather at the positions, then decode.
IndexDecode(tv, indices) ==
    Decode([tag |-> tv.tag, data |-> Gather(tv.data, indices), offset |-> tv.offset])

RECURSIVE KeyLess(_, _)
KeyLess(x, y) ==
    IF x = <<>> THEN FALSE
    ELSE IF Head(x) # Head(y) THEN Head(x) < Head(y)
    ELSE KeyLess(Tail(x), Tail(y))

Before(i, j, keys, desc) ==
    IF desc THEN KeyLess(keys[j + 1], keys[i + 1])
    ELSE KeyLess(keys[i + 1], keys[j + 1])

RECURSIVE Insert(_, _, _, _)
Insert(sorted, x, keys, desc) ==
    IF sorted = <<>> THEN <<x>>
    ELSE IF Before(x, Head(sorted), keys, desc) THEN <<x>> \o sorted
    ELSE <<Head(sorted)>> \o Insert(Tail(sorted), x, keys, desc)

RECURSIVE StableSort(_, _, _)
StableSort(indices, keys, desc) ==
    IF indices = <<>> THEN <<>>
    ELSE Insert(StableSort(SubSeq(indices, 1, Len(indices) - 1), keys, desc),
                indices[Len(indices)], keys, desc)

\* TypedVec::sort_indices_asc / sort_indices_desc: a stable sort of the
\* positions by the value at each position; comparing two positions reads the
\* buffer at both, which panics for a position past its end.
sort_indices(keys, indices, desc) ==
    IF Len(indices) >= 2 /\ \E k \in 1..Len(indices) : indices[k] >= Len(keys)
    THEN Panic("index out of bounds")
    ELSE [kind |-> "vec", data |-> StableSort(indices, keys, desc)]

Truncate(s, n) == SubSeq(s, 1, IF n < Len(s) THEN n ELSE Len(s))

\* ------------------------------------------------------------------- Query
Compiled(stage, filter) == [stage |-> stage, filter |-> filter]

\* Mutants of the filter derivation: a boolean buffer turned into the list of
\* its positions; a non-boolean result taken as "no row".
DeriveFilter_positions(fexec) ==
    IF fexec.tag = "Boolean" THEN FilterIndices(TruePositions(fexec.data, 1))
    ELSE FilterNone
DeriveFilter_strict(fexec) ==
    IF fexec.tag = "Boolean" THEN FilterBitVec(fexec.data)
    ELSE FilterIndices(<<>>)

\* query.rs 41-44 and 97-100.
DeriveFilter(fexec) ==
    IF fexec.tag = "Boolean" THEN FilterBitVec(fexec.data)
    ELSE FilterNone

\* query.rs 50-68: the Indices filter of an ordered query, or its panic.
OrderByFilter(qq, columns, filter) ==
    LET index == qq.order_by_index.v
        sort_column == OrderPreserving(Execute(qq.select[index + 1], columns, filter))
        candidates ==
            CASE filter.kind = "BitVec" ->
                   [kind |-> "vec", data |-> TruePositions(filter.bits, 1)]
              [] filter.kind = "None" ->
                   [kind |-> "vec", data |-> Range0(Len(sort_column))]
              [] OTHER -> Panic("surely this will never happen :)")
    IN  IF candidates.kind = "panic" THEN candidates
        ELSE LET sorted == sort_indices(sort_column, candidates.data, qq.order_desc)
             IN  IF sorted.kind = "panic" THEN sorted
                 ELSE [kind |-> "filter",
                       filter |-> FilterIndices(
                           Truncate(sorted.data, qq.limit.limit + qq.limit.offset))]

\* Mutant: the select expressions compiled under no restriction.
RunSelects_unfiltered(qq, columns, filter) ==
    [select |-> [k \in 1..Len(qq.select) |->
                    Decode(Execute(qq.select[k], columns, FilterNone))],
     log |-> [k \in 1..Len(qq.select) |-> Compiled("select", FilterNone)]]

\* query.rs 70-77: every select expression compiled under the filter,
\* executed and decoded.
RunSelects(qq, columns, filter) ==
    [select |-> [k \in 1..Len(qq.select) |->
                    Decode(Execute(qq.select[k], columns, filter))],
     log |-> [k \in 1..Len(qq.select) |-> Compiled("select", filter)]]

\* query.rs 46-87, from the derived filter on.  The outcome carries the
\* BatchResult (or the panic), the filter each create_query_plan call was
\* given, and the filter variant the order-by match inspected.
RunFrom(qq, columns, filter0) ==
    LET ob == IF qq.order_by_index = None
              THEN [kind |-> "filter", filter |-> filter0]
              ELSE OrderByFilter(qq, columns, filter0)
        log1 == <<Compiled("filter", FilterNone)>>
                  \o (IF qq.order_by_index = None THEN <<>>
                      ELSE <<Compiled("order_by", filter0)>>)
        inspected == IF qq.order_by_index = None THEN "n/a" ELSE filter0.kind
    IN  IF ob.kind = "panic"
        THEN [result |-> ob, log |-> log1, filter0 |-> filter0, inspected |-> inspected]
        ELSE LET sel == RunSelects(qq, columns, ob.filter)
             IN  [result |-> [kind |-> "BatchResult",
                              group_by |-> None,
                              sort_by |-> qq.order_by_index,
                              select |-> sel.select,
                              aggregators |-> <<>>,
                              level |-> 0,
                              batch_count |-> 1],
                  log |-> log1 \o sel.log,
                  filter0 |-> filter0,
                  inspected |-> inspected]

\* Query::run
run(qq, columns) ==
    RunFrom(qq, columns, DeriveFilter(Execute(qq.filter, columns, FilterNone)))

\* compile_grouping_key + execute: one composite key per row the filter
\* includes, a component per select expression, each in its encoded form.
compile_grouping_key(select, columns, filter) ==
    LET parts == [k \in 1..Len(select) |-> Execute(select[k], columns, filter)]
        n == IF select = <<>> THEN 0 ELSE Len(parts[1].data)
    IN  [tag |-> "Key",
         data |-> [i \in 1..n |-> [k \in 1..Len(select) |-> parts[k].data[i]]],
         offsets |-> [k \in 1..Len(select) |-> parts[k].offset]]

RECURSIVE Distinct(_, _)
Distinct(keys, seen) ==
    IF keys = <<>> THEN seen
    ELSE IF \E j \in 1..Len(seen) : seen[j] = Head(keys)
         THEN Distinct(Tail(keys), seen)
         ELSE Distinct(Tail(keys), Append(seen, Head(keys)))

\* grouping(): the group id of every row, the largest group id, and the
\* distinct keys in first-seen order.
grouping(key) ==
    LET groups == Distinct(key.data, <<>>)
    IN  [grouping |-> [i \in 1..Len(key.data) |->
                          (CHOOSE j \in 1..Len(groups) : groups[j] = key.data[i]) - 1],
         max_index |-> IF groups = <<>> THEN 0 ELSE Len(groups) - 1,
         groups |-> [tag |-> "Key", data |-> groups, offsets |-> key.offsets]]

RECURSIVE SumWhere(_, _, _)
SumWhere(vals, grp, g) ==
    IF vals = <<>> THEN 0
    ELSE (IF Head(grp) = g THEN Head(vals) ELSE 0) + SumWhere(Tail(vals), Tail(grp), g)

\* prepare_aggregation + execute: one value per group id, the number of the
\* group's rows or the total of their values.
Aggregate(vals, grp, max_index, aggregator) ==
    [tag |-> "Integer",
     data |-> [g1 \in 1..(IF grp = <<>> THEN 0 ELSE max_index + 1) |->
                  IF aggregator = "Count"
                  THEN Cardinality({i \in 1..Len(grp) : grp[i] = g1 - 1})
                  ELSE SumWhere(vals, grp, g1 - 1)],
     offset |-> 0]

\* index_decode of the distinct keys: gather, then decode each component.
KeyIndexDecode(groups, indices) ==
    [i \in 1..Len(indices) |->
        [k \in 1..Len(groups.offsets) |->
            groups.data[indices[i] + 1][k] + groups.offsets[k]]]

\* Mutant: the aggregate decoded in group-assignment order.
AggregateOutput_unsorted(aggregated, grouping_sort_indices) == Decode(aggregated)

\* query.rs 118: the aggregate's per-group values under the groups' sort
\* permutation.
AggregateOutput(aggregated, grouping_sort_indices) ==
    IndexDecode(aggregated, grouping_sort_indices)

\* query.rs 102-129: run_aggregate from the derived filter on.
RunAggregateFrom(qq, columns, filter) ==
    LET grouping_key == compile_grouping_key(qq.select, columns, filter)
        g == grouping(grouping_key)
        groups == g.groups
        grouping_sort_indices ==
            sort_indices(groups.data, Range0(Len(groups.data)), FALSE).data
        result ==
            [k \in 1..Len(qq.aggregate) |->
                AggregateOutput(
                    Aggregate(Decode(Execute(qq.aggregate[k][2], columns, filter)),
                              g.grouping, g.max_index, qq.aggregate[k][1]),
                    grouping_sort_indices)]
    IN  [result |-> [kind |-> "BatchResult",
                     group_by |-> Some(KeyIndexDecode(groups, grouping_sort_indices)),
                     sort_by |-> None,
                     select |-> result,
                     aggregators |-> [k \in 1..Len(qq.aggregate) |-> qq.aggregate[k][1]],
                     level |-> 0,
                     batch_count |-> 1],
         log |-> <<Compiled("filter", FilterNone), Compiled("grouping_key", filter)>>
                   \o [k \in 1..Len(qq.aggregate) |-> Compiled("aggregate", filter)],
         filter0 |-> filter,
         inspected |-> "n/a"]

\* Query::run_aggregate
run_aggregate(qq, columns) ==
    RunAggregateFrom(qq, columns, DeriveFilter(Execute(qq.filter, columns, FilterNone)))

RECURSIVE SelectNames(_, _)
SelectNames(select, anon_columns) ==
    IF select = <<>> THEN <<>>
    ELSE IF Head(select).kind = "ColName"
         THEN <<Head(select).name>> \o SelectNames(Tail(select), anon_columns)
         ELSE <<"col_" \o ToString(anon_columns + 1)>>
                \o SelectNames(Tail(select), anon_columns + 1)

RECURSIVE AggregateNames(_, _)
AggregateNames(aggregate, anon_aggregates) ==
    IF aggregate = <<>> THEN <<>>
    ELSE <<(IF Head(aggregate)[1] = "Count" THEN "count_" ELSE "sum_")
             \o ToString(anon_aggregates + 1)>>
           \o AggregateNames(Tail(aggregate), anon_aggregates + 1)

\* Mutant: one counter per aggregator kind.
RECURSIVE AggregateNamesPerKind(_, _, _)
AggregateNamesPerKind(aggregate, counts, sums) ==
    IF aggregate = <<>> THEN <<>>
    ELSE IF Head(aggregate)[1] = "Count"
         THEN <<"count_" \o ToString(counts + 1)>>
                \o AggregateNamesPerKind(Tail(aggregate), counts + 1, sums)
         ELSE <<"sum_" \o ToString(sums + 1)>>
                \o AggregateNamesPerKind(Tail(aggregate), counts, sums + 1)
result_column_names_per_kind(qq) ==
    SelectNames(qq.select, -1) \o AggregateNamesPerKind(qq.aggregate, -1, -1)

\* Query::result_column_names
result_column_names(qq) ==
    SelectNames(qq.select, -1) \o AggregateNames(qq.aggregate, -1)

\* ------------------------------------------------------ the column scenario
Mins == {I64_MIN, Z(-1), Z(0), Z(10)}
\* max - min as a mathematical value: each width's boundary and the value just
\* over it, and the differences that no longer fit an i64.
Diffs == {Z(0), Z(1), Z(U8_MAX), Z(U8_MAX + 1), Z(U16_MAX), Z(U16_MAX + 1),
          U32_MAX, ZAdd(U32_MAX, Z(1)), I64_MAX, ZAdd(I64_MAX, Z(1)),
          ZSub(I64_MAX, I64_MIN)}
Ranges == {r \in Mins \X Diffs : FitsI64(ZAdd(r[1], r[2]))}

InRange(v, mn, mx) == ZLeq(mn, v) /\ ZLeq(v, mx)
\* Values of a column with the given minimum and maximum.
Samples(mn, mx) == {v \in {mn, ZAdd(mn, Z(1)), ZSub(mx, Z(1)), mx} : InRange(v, mn, mx)}
SeqsUpTo(S, n) == UNION {[1..k -> S] : k \in 0..n}
\* Literals a query may compare the column with: inside and outside its range.
Literals(mn, mx) ==
    {v \in Samples(mn, mx) \cup {ZSub(mn, Z(1)), ZAdd(mx, Z(1)), ZAdd(mn, Z(U8_MAX + 1))} :
        FitsI64(v)}

InitQueryIdle == tbl = None /\ q = None /\ out = None /\ qpc = "idle"

InitColumn ==
    /\ overflow_checks \in BOOLEAN
    /\ \E r \in Ranges :
         /\ min = r[1]
         /\ max = ZAdd(r[1], r[2])
         /\ values \in SeqsUpTo(Samples(r[1], ZAdd(r[1], r[2])), MaxValues)
    /\ col = None /\ lit = None /\ rawval = None /\ decoded = None /\ sum_pres = None
    /\ cpc = "init"
    /\ InitQueryIdle

NewBoxed ==
    /\ cpc = "init"
    /\ col' = new_boxed(values, min, max, overflow_checks)
    /\ cpc' = "built"
    /\ UNCHANGED <<overflow_checks, min, max, values, lit, rawval, decoded, sum_pres>>
    /\ UNCHANGED qvars

EncodeInt ==
    /\ cpc = "built" /\ col.kind = "encoded" /\ rawval = None
    /\ \E val \in Literals(min, max) :
         /\ lit' = [kind |-> "Int", v |-> val]
         /\ rawval' = encode_int(col.offset, val, overflow_checks)
    /\ UNCHANGED <<overflow_checks, min, max, values, col, decoded, sum_pres, cpc>>
    /\ UNCHANGED qvars

UnwrapDecode ==
    /\ cpc = "built" /\ col.kind = "encoded" /\ decoded = None
    /\ decoded' = unwrap_decode(col.offset, col.data, overflow_checks)
    /\ UNCHANGED <<overflow_checks, min, max, values, col, lit, rawval, sum_pres, cpc>>
    /\ UNCHANGED qvars

IsSummationPreserving ==
    /\ cpc = "built" /\ col.kind = "encoded" /\ sum_pres = None
    /\ sum_pres' = [kind |-> "bool", v |-> is_summation_preserving(col.offset)]
    /\ UNCHANGED <<overflow_checks, min, max, values, col, lit, rawval, decoded, cpc>>
    /\ UNCHANGED qvars

NextColumn == NewBoxed \/ EncodeInt \/ UnwrapDecode \/ IsSummationPreserving

SpecColumn == InitColumn /\ [][NextColumn]_vars

\* ------------------------------------------------------- the query scenario
InitColumnIdle ==
    /\ overflow_checks = FALSE /\ min = None /\ max = None /\ values = None
    /\ col = None /\ lit = None /\ rawval = None /\ decoded = None /\ sum_pres = None
    /\ cpc = "idle"

ColName(name) == [kind |-> "ColName", name |-> name]
GreaterThan(name, c) == [kind |-> "Func", f |-> "GT", col |-> name, c |-> c]
Const(v) == [kind |-> "Const", v |-> v]

\* Two columns of the same length: a holds 10..12 stored as 0..2 with offset
\* 10, b holds 0..1 with offset 0.
Tables ==
    UNION {{[a |-> [data |-> da, offset |-> 10], b |-> [data |-> db, offset |-> 0]] :
              da \in [1..n -> 0..2], db \in [1..n -> 0..1]} : n \in 0..MaxRows}

FilterExprs == {Const(1), ColName("a"), GreaterThan("a", 10), GreaterThan("b", 0)}
SelectLists == {<<ColName("a")>>, <<ColName("b")>>, <<ColName("a"), ColName("b")>>}
LimitClauses == {[limit |-> 1, offset |-> 0], [limit |-> 1, offset |-> 1],
                 [limit |-> MaxLimit, offset |-> 1]}
AggregateLists == {<<<<"Count", ColName("a")>>>>, <<<<"Sum", ColName("b")>>>>,
                   <<<<"Sum", ColName("a")>>, <<"Count", ColName("b")>>>>}

Query(select, filter, aggregate, order_desc, limit, order_by_index) ==
    [select |-> select, table |-> "default", filter |-> filter, aggregate |-> aggregate,
     order_by |-> IF order_by_index = None THEN None
                  ELSE Some(select[order_by_index.v + 1].name),
     order_desc |-> order_desc, limit |-> limit, order_by_index |-> order_by_index]

RunQueries ==
    {Query(s, f, <<>>, FALSE, [limit |-> MaxLimit, offset |-> 0], None) :
        s \in SelectLists, f \in FilterExprs}
    \cup UNION {{Query(s, f, <<>>, d, l, Some(i - 1)) :
                    f \in FilterExprs, d \in BOOLEAN, l \in LimitClauses, i \in 1..Len(s)} :
                s \in SelectLists}
AggregateQueries ==
    {Query(s, f, a, FALSE, [limit |-> MaxLimit, offset |-> 0], None) :
        s \in SelectLists, f \in FilterExprs, a \in AggregateLists}

InitQuery ==
    /\ tbl \in Tables
    /\ q = None /\ out = None /\ qpc = "init"
    /\ InitColumnIdle

Run ==
    /\ qpc = "init"
    /\ \E qq \in RunQueries :
         /\ q' = qq
         /\ out' = run(qq, tbl)
    /\ qpc' = "ran"
    /\ UNCHANGED tbl
    /\ UNCHANGED colvars

RunAggregate ==
    /\ qpc = "init"
    /\ \E qq \in AggregateQueries :
         /\ q' = qq
         /\ out' = run_aggregate(qq, tbl)
    /\ qpc' = "aggregated"
    /\ UNCHANGED tbl
    /\ UNCHANGED colvars

NextQuery == Run \/ RunAggregate

SpecQuery == InitQuery /\ [][NextQuery]_vars

\* ------------------------------------------------------- the names scenario
NameExprs == {ColName("a"), ColName("b"), GreaterThan("a", 10), Const(1)}
NameAggregates == {"Count", "Sum"} \X {ColName("x"), ColName("y")}

InitNames ==
    /\ \E s \in SeqsUpTo(NameExprs, MaxSelect), a \in SeqsUpTo(NameAggregates, MaxAggregates) :
         q = Query(s, Const(1), a, FALSE, [limit |-> MaxLimit, offset |-> 0], None)
    /\ tbl = None /\ out = None /\ qpc = "query"
    /\ InitColumnIdle

ResultColumnNames ==
    /\ qpc = "query"
    /\ out' = [kind |-> "names", names |-> result_column_names(q)]
    /\ qpc' = "named"
    /\ UNCHANGED <<tbl, q>>
    /\ UNCHANGED colvars

NextNames == ResultColumnNames

SpecNames == InitNames /\ [][NextNames]_vars

\* Every scenario together.
Init == InitColumn \/ InitQuery \/ InitNames
Next == NextColumn \/ NextQuery \/ NextNames
Spec == Init /\ [][Next]_vars

\* ------------------------------------------------------- claims: the column
\* The encoding the factory is documented to choose, from the mathematical
\* value of max - min.
Diff == ZSub(max, min)
DocumentedEncoding ==
    IF ZLeq(Diff, Z(U8_MAX)) THEN "u8"
    ELSE IF ZLeq(Diff, Z(U16_MAX)) THEN "u16"
    ELSE IF ZLeq(Diff, U32_MAX) THEN "u32"
    ELSE "plain"

\* C1: new_boxed chooses, for every min <= max, the 8-, 16- or 32-bit
\* encoding from max - min, and plain 64-bit storage with range (min, max)
\* and no codec when max - min exceeds the 32-bit unsigned range.
C1_WidthFromRange ==
    cpc = "built" =>
        IF DocumentedEncoding = "plain"
        THEN col.kind = "plain" /\ col.range = <<min, max>> /\ col.data = values
        ELSE col.kind = "encoded" /\ col.t = DocumentedEncoding

\* C2: in a column with an integer-offset codec, every v in [min, max] encodes
\* to a value that fits the chosen width and decodes back to v, and the
\* column's stored values decode back to the values it was built from.
C2_RoundTrip ==
    /\ (cpc = "built" /\ col.kind = "encoded" /\ rawval # None
            /\ InRange(lit.v, min, max)) =>
          /\ rawval.kind = "Int"
          /\ FromI64(col.t, rawval.v).some
          /\ unwrap_decode(col.offset, <<rawval.v>>, overflow_checks)
                = [kind |-> "vec", data |-> <<lit.v>>]
    /\ (cpc = "built" /\ col.kind = "encoded" /\ decoded # None) =>
          decoded = [kind |-> "vec", data |-> values]

\* C3: encode_int rejects a literal whose encoded value val - offset lies
\* outside the encoded domain of the codec's width, instead of returning it.
C3_EncodeIntRejects ==
    (cpc = "built" /\ col.kind = "encoded" /\ rawval # None
        /\ ~FromI64(col.t, ZSub(lit.v, col.offset)).some) =>
      rawval.kind # "Int"

\* C4: is_summation_preserving is true exactly when the offset is zero; with
\* offset zero the decoded values sum to what the encoded values sum to, and
\* with a nonzero offset and n >= 1 rows the sums differ by offset * n.
C4_SummationPreserving ==
    /\ (sum_pres # None) => (sum_pres.v <=> col.offset = Z(0))
    /\ (decoded # None /\ decoded.kind = "vec") =>
          LET n == Len(col.data)
              delta == ZSub(ZSum(decoded.data), ZSum(col.data))
          IN  /\ delta = ZTimes(col.offset, n)
              /\ (sum_pres # None /\ sum_pres.v) =>
                    ZSum(decoded.data) = ZSum(col.data)
              /\ (sum_pres # None /\ ~sum_pres.v /\ n >= 1) =>
                    ZSum(decoded.data) # ZSum(col.data)

C4_Witness ==
    /\ sum_pres # None /\ sum_pres.v
    /\ decoded # None /\ decoded.kind = "vec"
    /\ Len(col.data) = MaxValues
    /\ ZSum(col.data) # Z(0)
    /\ col.t = "u16"

\* -------------------------------------------------------- claims: the query
NRows == Len(tbl.a.data)
Logical(name) == [i \in 1..NRows |-> tbl[name].data[i] + tbl[name].offset]
\* Whether the query's filter expression includes row i (one-based).
Includes(i) == q.filter.kind = "Func" => Logical(q.filter.col)[i] > q.filter.c
RECURSIVE IncludedFrom(_)
IncludedFrom(i) ==
    IF i > NRows THEN <<>>
    ELSE (IF Includes(i) THEN <<i - 1>> ELSE <<>>) \o IncludedFrom(i + 1)
\* The included row positions, stably sorted by the order-by column's logical
\* value and cut to limit + offset.
ExpectedOrder ==
    LET name == q.select[q.order_by_index.v + 1].name
        keys == [i \in 1..NRows |-> <<Logical(name)[i]>>]
    IN  Truncate(StableSort(IncludedFrom(1), keys, q.order_desc),
                 q.limit.limit + q.limit.offset)

\* C5: with order_by_index set, every select column of run's result lists
\* the values of the rows the filter includes, stably sorted by the order-by
\* column and cut to limit + offset, also when the filter excludes rows.
C5_OrderedSelect ==
    (qpc = "ran" /\ q.order_by_index # None) =>
        /\ out.result.kind = "BatchResult"
        /\ \A k \in 1..Len(q.select) :
             out.result.select[k] = Gather(Logical(q.select[k].name), ExpectedOrder)

\* The composite logical key of row i, and the rows that carry key kv.
RowKey(i) == [k \in 1..Len(q.select) |-> Logical(q.select[k].name)[i]]
RowsOf(kv) == {i \in 1..NRows : Includes(i) /\ RowKey(i) = kv}
RECURSIVE SumOver(_, _)
SumOver(vals, rows) ==
    IF rows = {} THEN 0
    ELSE LET r == CHOOSE x \in rows : TRUE
         IN  vals[r] + SumOver(vals, rows \ {r})
ExpectedAggregate(pair, kv) ==
    IF pair[1] = "Count" THEN Cardinality(RowsOf(kv))
    ELSE SumOver(Logical(pair[2].name), RowsOf(kv))

\* C6: run_aggregate emits one value per distinct group in every aggregate
\* column, the group-by keys strictly ascending, and at every position each
\* aggregate's value is the aggregate of the group whose key stands there.
C6_GroupsAligned ==
    qpc = "aggregated" =>
        LET g == out.result.group_by.v
        IN  /\ Len(g) = Cardinality({RowKey(i) : i \in {j \in 1..NRows : Includes(j)}})
            /\ \A i \in 1..(Len(g) - 1) : KeyLess(g[i], g[i + 1])
            /\ Len(out.result.select) = Len(q.aggregate)
            /\ \A k \in 1..Len(q.aggregate) :
                 /\ Len(out.result.select[k]) = Len(g)
                 /\ \A i \in 1..Len(g) :
                      out.result.select[k][i] = ExpectedAggregate(q.aggregate[k], g[i])

\* Two groups first seen in descending key order, with different sums.
C6_Witness ==
    /\ qpc = "aggregated"
    /\ Len(out.result.group_by.v) >= 2
    /\ NRows >= 2 /\ RowKey(1) # RowKey(2) /\ KeyLess(RowKey(2), RowKey(1))
    /\ Includes(1) /\ Includes(2)
    /\ Len(q.aggregate) = 2
    /\ out.result.select[1][1] # out.result.select[1][2]

ExampleSelect == <<ColName("a"), GreaterThan("a", 10), ColName("b")>>
ExampleAggregate == <<<<"Count", ColName("x")>>, <<"Sum", ColName("y")>>>>
ExpectedSelectName(i) ==
    IF q.select[i].kind = "ColName" THEN q.select[i].name
    ELSE "col_" \o ToString(Cardinality({k \in 1..(i - 1) : q.select[k].kind # "ColName"}))
ExpectedAggregateName(j) ==
    (IF q.aggregate[j][1] = "Count" THEN "count_" ELSE "sum_") \o ToString(j - 1)
NamesFollowRule ==
    /\ Len(out.names) = Len(q.select) + Len(q.aggregate)
    /\ \A i \in 1..Len(q.select) : out.names[i] = ExpectedSelectName(i)
    /\ \A j \in 1..Len(q.aggregate) :
         out.names[Len(q.select) + j] = ExpectedAggregateName(j)

\* C7 as stated: the naming rule, and the names a, col_0, b, count_0, sum_0
\* for [ColName a, an anonymous select, ColName b] with [(Count, x), (Sum, y)].
C7_NamesAsStated ==
    qpc = "named" =>
        /\ NamesFollowRule
        /\ (q.select = ExampleSelect /\ q.aggregate = ExampleAggregate) =>
             out.names = <<"a", "col_0", "b", "count_0", "sum_0">>

\* C7, amended: the naming rule (a column reference keeps its name, the k-th
\* anonymous select is col_<k>, the k-th aggregate pair is count_<k> or
\* sum_<k>, both counted from zero), under which the example's names are
\* a, col_0, b, count_0, sum_1.
C7_Names ==
    qpc = "named" =>
        /\ NamesFollowRule
        /\ (q.select = ExampleSelect /\ q.aggregate = ExampleAggregate) =>
             out.names = <<"a", "col_0", "b", "count_0", "sum_1">>

C7_Witness ==
    /\ qpc = "named"
    /\ q.select = ExampleSelect /\ q.aggregate = ExampleAggregate
    /\ out.names = <<"a", "col_0", "b", "count_0", "sum_1">>

FilterExecuted == Execute(q.filter, tbl, FilterNone)
AllRows == FilterBitVec([i \in 1..NRows |-> TRUE])

\* C8: in run and run_aggregate a boolean filter result becomes a BitVec
\* filter and any other result "no restriction", without an error, so that
\* the query returns what it returns with every row included.
C8_FilterDegrades ==
    qpc \in {"ran", "aggregated"} =>
        IF FilterExecuted.tag = "Boolean"
        THEN out.filter0 = FilterBitVec(FilterExecuted.data)
        ELSE /\ out.filter0 = FilterNone
             /\ out.result.kind = "BatchResult"
             /\ out.result = (IF qpc = "ran" THEN RunFrom(q, tbl, AllRows).result
                              ELSE RunAggregateFrom(q, tbl, AllRows).result)

\* An ordered run whose filter expression is a column reference.
C8_Witness ==
    /\ qpc = "ran" /\ q.filter = ColName("a") /\ q.order_by_index # None
    /\ NRows = MaxRows
    /\ out.filter0 = FilterNone
    /\ out.result.kind = "BatchResult"
    /\ Len(out.result.select[1]) >= 2

Stages(stage) == {i \in 1..Len(out.log) : out.log[i].stage = stage}

\* C9 as stated: every plan compiled after the filter expression, in run and
\* in run_aggregate, is compiled under one and the same filter.
C9_OneFilterAsStated ==
    qpc \in {"ran", "aggregated"} =>
        /\ out.log[1] = Compiled("filter", FilterNone)
        /\ \A i, j \in 2..Len(out.log) : out.log[i].filter = out.log[j].filter

\* C9, amended: the filter expression is compiled under no restriction; in
\* run_aggregate the grouping key and every aggregate, and in run without
\* order-by every select, are compiled under the derived filter; in run with
\* order-by the order-by expression is compiled under the derived filter and
\* every select under one Indices filter, which the sort produced.
C9_FilterThreaded ==
    qpc \in {"ran", "aggregated"} =>
        /\ out.log[1] = Compiled("filter", FilterNone)
        /\ Stages("filter") = {1}
        /\ \A i \in Stages("grouping_key") \cup Stages("aggregate") \cup Stages("order_by") :
             out.log[i].filter = out.filter0
        /\ \A i, j \in Stages("select") : out.log[i].filter = out.log[j].filter
        /\ \A i \in Stages("select") :
             IF q.order_by_index = None THEN out.log[i].filter = out.filter0
             ELSE out.log[i].filter.kind = "Indices"
        /\ (qpc = "aggregated") =>
             /\ Cardinality(Stages("grouping_key")) = 1
             /\ Cardinality(Stages("aggregate")) = Len(q.aggregate)
        /\ (qpc = "ran" /\ out.result.kind = "BatchResult") =>
             /\ Cardinality(Stages("select")) = Len(q.select)
             /\ Cardinality(Stages("order_by")) = IF q.order_by_index = None THEN 0 ELSE 1

\* An ordered run under a mask that excludes a row: the order-by expression
\* saw the mask, both selects the Indices filter.
C9_Witness ==
    /\ qpc = "ran" /\ q.order_by_index # None
    /\ out.result.kind = "BatchResult"
    /\ out.filter0.kind = "BitVec" /\ \E i \in 1..NRows : ~out.filter0.bits[i]
    /\ Cardinality(Stages("select")) = 2
    /\ \A i \in Stages("select") : out.log[i].filter.kind = "Indices"
    /\ \A i \in Stages("order_by") : out.log[i].filter.kind = "BitVec"

\* C10: the filter that run's order-by index computation inspects is never
\* an Indices filter, so its panic branch is not taken.
C10_NoImpossibleFilter ==
    qpc = "ran" =>
        /\ out.inspected \in {"n/a", "None", "BitVec"}
        /\ out.result # Panic("surely this will never happen :)")
        /\ (q.order_by_index # None) => out.inspected = out.filter0.kind

C10_Witness ==
    /\ qpc = "ran" /\ q.order_by_index # None
    /\ out.inspected = "BitVec"
    /\ out.result.kind = "BatchResult"
    /\ NRows >= 2

====
